---- MODULE Spec2Model ----
(***************************************************************************)
(* Model of the Decimal fixed-point type of solana-maths (src/decimal.rs). *)
(*                                                                         *)
(* A Decimal wraps a U192.  The values involved (10^18, 2^64, 2^128,       *)
(* 2^192) are far beyond the integers TLC computes with, so an unsigned    *)
(* integer is represented by its little-endian base-256 digits with no     *)
(* high zero digit (zero is the empty sequence).  The representation is    *)
(* canonical: two numbers are equal iff their sequences are equal.  A      *)
(* value fits in w bits iff it has at most w/8 digits, and to_le_bytes is  *)
(* the digit sequence padded with zeros to the width.                      *)
(***************************************************************************)
EXTENDS Integers, Sequences, FiniteSets, TLC

\* ------------------------------------------------------------------------
\* Unsigned integers of unbounded size (the arithmetic the uint crate and
\* the native integer types provide)
\* ------------------------------------------------------------------------

\* the radix of one byte
Base == 256

Max2(a, b) == IF a >= b THEN a ELSE b

\* digit i (1-based, least significant first), 0 outside the sequence
Digit(s, i) == IF 1 <= i /\ i <= Len(s) THEN s[i] ELSE 0

RECURSIVE Trim(_)
\* drop the high zero digits
Trim(s) ==
  IF s = <<>> THEN s
  ELSE IF s[Len(s)] = 0 THEN Trim(SubSeq(s, 1, Len(s) - 1))
  ELSE s

\* A column of an addition, subtraction or multiplication may exceed a digit
\* or be negative; Carry and Low split column t into the carry (a borrow
\* when negative: \div and % round towards minus infinity) and the digit.
Carry(t) == IF 0 <= t /\ t < Base THEN 0 ELSE t \div Base

Low(t) == IF 0 <= t /\ t < Base THEN t ELSE t % Base

RECURSIVE AddDigits(_, _, _, _, _, _)
\* the digits i..n of a + b, with carry c into digit i, appended to acc
AddDigits(a, b, n, i, c, acc) ==
  IF i > n THEN acc
  ELSE LET t == Digit(a, i) + Digit(b, i) + c
       IN  IF t < Base
           THEN AddDigits(a, b, n, i + 1, 0, Append(acc, t))
           ELSE AddDigits(a, b, n, i + 1, Carry(t), Append(acc, Low(t)))

\* a + b
NatAdd(a, b) == Trim(AddDigits(a, b, Max2(Len(a), Len(b)) + 1, 1, 0, <<>>))

\* a < b
NatLess(a, b) ==
  IF Len(a) # Len(b) THEN Len(a) < Len(b)
  ELSE \E i \in 1..Len(a) :
          /\ a[i] < b[i]
          /\ \A j \in (i + 1)..Len(a) : a[j] = b[j]

\* a <= b
NatLeq(a, b) == a = b \/ NatLess(a, b)

RECURSIVE SubDigits(_, _, _, _, _)
\* the digits i..Len(a) of a - b, with borrow c (0 or -1) into digit i
SubDigits(a, b, i, c, acc) ==
  IF i > Len(a) THEN acc
  ELSE LET t == a[i] - Digit(b, i) + c
       IN  IF t >= 0
           THEN SubDigits(a, b, i + 1, 0, Append(acc, t))
           ELSE SubDigits(a, b, i + 1, Carry(t), Append(acc, Low(t)))

\* a - b, for b <= a
NatSub(a, b) == Trim(SubDigits(a, b, 1, 0, <<>>))

RECURSIVE ColSum(_, _, _, _, _)
\* the sum of a[i] * b[k + 1 - i] for i in lo..hi
ColSum(a, b, k, i, hi) ==
  IF i > hi THEN 0
  ELSE a[i] * b[k + 1 - i] + ColSum(a, b, k, i + 1, hi)

\* column k of a * b: the products of the digits whose weights multiply to
\* Base^(k - 1)
MulCol(a, b, k) ==
  ColSum(a, b, k, Max2(1, k + 1 - Len(b)), IF k <= Len(a) THEN k ELSE Len(a))

RECURSIVE MulDigits(_, _, _, _, _)
\* the digits k..Len(a) + Len(b) of a * b, with carry c into digit k
MulDigits(a, b, k, c, acc) ==
  IF k > Len(a) + Len(b) THEN acc
  ELSE LET t == MulCol(a, b, k) + c
       IN  IF t < Base
           THEN MulDigits(a, b, k + 1, 0, Append(acc, t))
           ELSE MulDigits(a, b, k + 1, Carry(t), Append(acc, Low(t)))

\* a * b
NatMul(a, b) ==
  IF a = <<>> \/ b = <<>> THEN <<>>
  ELSE Trim(MulDigits(a, b, 1, 0, <<>>))

RECURSIVE QuoDigit(_, _, _, _)
\* the largest d in lo..hi with d * b <= r, given lo * b <= r
QuoDigit(r, b, lo, hi) ==
  IF lo = hi THEN lo
  ELSE LET mid == (lo + hi + 1) \div 2
       IN  IF NatLeq(NatMul(b, <<mid>>), r)
           THEN QuoDigit(r, b, mid, hi)
           ELSE QuoDigit(r, b, lo, mid - 1)

\* the three digits of r at and around the top digit of b, and the top two
\* digits of b, as integers: r = Top3 * Base^(Len(b) - 2) + (less than that
\* power), b likewise, so floor(r / b) lies between QuoLow and QuoHigh
Top3(r, b) ==
  (Digit(r, Len(b) + 1) * Base + Digit(r, Len(b))) * Base + Digit(r, Len(b) - 1)

Top2(b) == b[Len(b)] * Base + Digit(b, Len(b) - 1)

QuoLow(r, b) == Top3(r, b) \div (Top2(b) + 1)

QuoHigh(r, b) ==
  LET h == (Top3(r, b) + 1) \div Top2(b)
  IN  IF h < Base THEN h ELSE Base - 1

RECURSIVE LongDiv(_, _, _, _, _)
\* schoolbook division of a by b # 0, from digit i of a down: q holds the
\* quotient digits found so far (least significant first), r the remainder
\* (r < b, so the next quotient digit is below Base)
LongDiv(a, b, i, q, r) ==
  IF i = 0 THEN <<Trim(q), r>>
  ELSE LET r1 == Trim(<<a[i]>> \o r)
           d  == QuoDigit(r1, b, QuoLow(r1, b), QuoHigh(r1, b))
       IN  IF d = 0
           THEN LongDiv(a, b, i - 1, <<0>> \o q, r1)
           ELSE LongDiv(a, b, i - 1, <<d>> \o q, NatSub(r1, NatMul(b, <<d>>)))

\* floor(a / b), for b # 0
NatDiv(a, b) == LongDiv(a, b, Len(a), <<>>, <<>>)[1]

\* a mod b, for b # 0
NatMod(a, b) == LongDiv(a, b, Len(a), <<>>, <<>>)[2]

RECURSIVE NatOfInt(_)
\* the number of a (small) integer of the model
NatOfInt(n) == IF n = 0 THEN <<>> ELSE <<n % Base>> \o NatOfInt(n \div Base)

RECURSIVE NatPow(_, _)
\* b ^ e
NatPow(b, e) == IF e = 0 THEN <<1>> ELSE NatMul(b, NatPow(b, e - 1))

RECURSIVE Repeat(_, _)
\* n copies of the digit d
Repeat(d, n) == IF n = 0 THEN <<>> ELSE <<d>> \o Repeat(d, n - 1)

\* the largest value of nbytes bytes: 2^(8 * nbytes) - 1
MaxOfBytes(nbytes) == Repeat(Base - 1, nbytes)

\* whether v fits an unsigned integer of nbytes bytes
Fits(v, nbytes) == Len(v) <= nbytes

\* ------------------------------------------------------------------------
\* Widths and constants
\* ------------------------------------------------------------------------

\* bytes of one 64-bit word
WORD_BYTES == 8

\* construct_uint! { pub struct U192(3); }: three 64-bit words
U192_WORDS == 3

U192_BYTES == U192_WORDS * WORD_BYTES

U64_BYTES == WORD_BYTES

U128_BYTES == 2 * WORD_BYTES

U64_MAX == MaxOfBytes(U64_BYTES)

U128_MAX == MaxOfBytes(U128_BYTES)

U192_MAX == MaxOfBytes(U192_BYTES)

\* decimal places of precision
SCALE == 18

\* U192::exp10
exp10(n) == NatPow(<<10>>, n)

\* the scale factor, 10^18 (test_scaler: U192::exp10(SCALE) == Decimal::wad())
WAD == exp10(SCALE)

HALF_WAD == NatDiv(WAD, <<2>>)

PERCENT_SCALER == NatDiv(WAD, <<100>>)

BIPS_SCALER == NatDiv(PERCENT_SCALER, <<100>>)

\* Pack::LEN
LEN == 16

\* ------------------------------------------------------------------------
\* MathError, and what a call yields
\* ------------------------------------------------------------------------

\* the ordinals of enum MathError
AddOverflow == 0
SubUnderflow == 1
MulOverflow == 2
DividedByZero == 3
UnableToRoundU64 == 4
UnableToRoundU128 == 5

\* From<MathError> for ProgramError: ProgramError::Custom(e as u32)
ProgramErrorOf(e) == [custom |-> e]

\* a call returns a value (Ok), returns an error (Err) or panics
Ok(v) == [kind |-> "Ok", val |-> v, err |-> ProgramErrorOf(-1)]

Err(e) == [kind |-> "Err", val |-> <<>>, err |-> ProgramErrorOf(e)]

Panic == [kind |-> "Panic", val |-> <<>>, err |-> ProgramErrorOf(-1)]

\* Option<U192>
Some(v) == [some |-> TRUE, val |-> v]

None == [some |-> FALSE, val |-> <<>>]

\* ------------------------------------------------------------------------
\* U192 and native integer primitives
\* ------------------------------------------------------------------------

\* U192::checked_add
checked_add(a, b) ==
  LET s == NatAdd(a, b) IN IF Fits(s, U192_BYTES) THEN Some(s) ELSE None

\* U192::checked_sub
checked_sub(a, b) == IF NatLess(a, b) THEN None ELSE Some(NatSub(a, b))

\* U192::checked_mul
checked_mul(a, b) ==
  LET p == NatMul(a, b) IN IF Fits(p, U192_BYTES) THEN Some(p) ELSE None

\* U192::checked_div
checked_div(a, b) == IF b = <<>> THEN None ELSE Some(NatDiv(a, b))

\* u128::try_from(U192), u64::try_from(U192): the value if it fits nbytes
try_from(v, nbytes) == IF Fits(v, nbytes) THEN Some(v) ELSE None

\* the low nbytes bytes of v (a wrapping native operation)
Wrap(v, nbytes) == IF Fits(v, nbytes) THEN v ELSE Trim(SubSeq(v, 1, nbytes))

\* the bytes most significant first
to_be_bytes(v) == [i \in 1..U128_BYTES |-> Digit(v, U128_BYTES + 1 - i)]

\* u128::to_le_bytes: LEN bytes, least significant first
to_le_bytes(v) == [i \in 1..U128_BYTES |-> Digit(v, i)]

\* u128::from_le_bytes
from_le_bytes(bytes) == Trim(bytes)

\* ------------------------------------------------------------------------
\* Decimal: a value is its raw U192
\* ------------------------------------------------------------------------

zero == <<>>

one == WAD

\* Decimal::from_percent(percent: u8): percent as u64 * PERCENT_SCALER
from_percent(percent) == Ok(NatMul(percent, PERCENT_SCALER))

\* Decimal::from_bips(percent: u64): percent * BIPS_SCALER is a u64 product;
\* when it overflows a build with overflow checks panics and one without
\* them wraps
from_bips(percent, overflow_checks) ==
  LET p == NatMul(percent, BIPS_SCALER)
  IN  IF Fits(p, U64_BYTES) THEN Ok(p)
      ELSE IF overflow_checks THEN Panic
      ELSE Ok(Wrap(p, U64_BYTES))

\* to_scaled_val keeping the low 128 bits instead of failing
to_scaled_val_truncating(self) == Ok(Wrap(self, U128_BYTES))

\* Decimal::to_scaled_val
to_scaled_val(self) ==
  LET v == try_from(self, U128_BYTES)
  IN  IF v.some THEN Ok(v.val) ELSE Err(UnableToRoundU128)

\* Decimal::from_scaled_val(scaled_val: u128)
from_scaled_val(scaled_val) == Ok(scaled_val)

\* try_round_u64 adding one less than HALF_WAD (round half down)
try_round_u64_half_down(self) ==
  LET s == checked_add(NatSub(HALF_WAD, <<1>>), self)
  IN  IF ~s.some THEN Err(AddOverflow)
      ELSE LET r == try_from(NatDiv(s.val, WAD), U64_BYTES)
           IN  IF r.some THEN Ok(r.val) ELSE Err(UnableToRoundU64)

\* Decimal::try_round_u64
try_round_u64(self) ==
  LET s == checked_add(HALF_WAD, self)
  IN  IF ~s.some THEN Err(AddOverflow)
      ELSE LET q == checked_div(s.val, WAD)
           IN  IF ~q.some THEN Err(DividedByZero)
               ELSE LET r == try_from(q.val, U64_BYTES)
                    IN  IF r.some THEN Ok(r.val) ELSE Err(UnableToRoundU64)

\* try_ceil_u64 adding WAD instead of WAD - 1
try_ceil_u64_adds_wad(self) ==
  LET s == checked_add(WAD, self)
  IN  IF ~s.some THEN Err(AddOverflow)
      ELSE LET r == try_from(NatDiv(s.val, WAD), U64_BYTES)
           IN  IF r.some THEN Ok(r.val) ELSE Err(UnableToRoundU64)

\* Decimal::try_ceil_u64
try_ceil_u64(self) ==
  LET m == checked_sub(WAD, <<1>>)
  IN  IF ~m.some THEN Err(SubUnderflow)
      ELSE LET s == checked_add(m.val, self)
           IN  IF ~s.some THEN Err(AddOverflow)
               ELSE LET q == checked_div(s.val, WAD)
                    IN  IF ~q.some THEN Err(DividedByZero)
                        ELSE LET r == try_from(q.val, U64_BYTES)
                             IN  IF r.some THEN Ok(r.val)
                                 ELSE Err(UnableToRoundU64)

\* Decimal::try_floor_u64
try_floor_u64(self) ==
  LET q == checked_div(self, WAD)
  IN  IF ~q.some THEN Err(DividedByZero)
      ELSE LET r == try_from(q.val, U64_BYTES)
           IN  IF r.some THEN Ok(r.val) ELSE Err(UnableToRoundU64)

\* U192 * U192 (impl Mul): panics on overflow
mul_or_panic(a, b) ==
  LET p == NatMul(a, b) IN IF Fits(p, U192_BYTES) THEN Ok(p) ELSE Panic

\* From<u64> for Decimal
from_u64(val) == mul_or_panic(WAD, val)

\* From<u128> for Decimal
from_u128(val) == mul_or_panic(WAD, val)

\* Rate::to_scaled_val: the raw u128 of a Rate
rate_to_scaled_val(rate) == rate

\* From<Rate> for Decimal
from_rate(val) == Ok(rate_to_scaled_val(val))

\* TryAdd for Decimal
try_add(self, rhs) ==
  LET s == checked_add(self, rhs)
  IN  IF s.some THEN Ok(s.val) ELSE Err(AddOverflow)

\* TrySub for Decimal
try_sub(self, rhs) ==
  LET d == checked_sub(self, rhs)
  IN  IF d.some THEN Ok(d.val) ELSE Err(MulOverflow)

\* TryDiv<u64> for Decimal
try_div_u64(self, rhs) ==
  LET q == checked_div(self, rhs)
  IN  IF q.some THEN Ok(q.val) ELSE Err(DividedByZero)

\* try_div testing the divisor before the multiplication by WAD
try_div_zero_first(self, rhs) ==
  IF rhs = <<>> THEN Err(DividedByZero)
  ELSE LET p == checked_mul(self, WAD)
       IN  IF p.some THEN Ok(NatDiv(p.val, rhs)) ELSE Err(MulOverflow)

\* try_div without the multiplication by WAD
try_div_no_prescale(self, rhs) ==
  LET q == checked_div(self, rhs)
  IN  IF q.some THEN Ok(q.val) ELSE Err(DividedByZero)

\* TryDiv<Decimal> for Decimal
try_div(self, rhs) ==
  LET p == checked_mul(self, WAD)
  IN  IF ~p.some THEN Err(MulOverflow)
      ELSE LET q == checked_div(p.val, rhs)
           IN  IF q.some THEN Ok(q.val) ELSE Err(DividedByZero)

\* TryDiv<Rate> for Decimal
try_div_rate(self, rhs) == try_div(self, from_rate(rhs).val)

\* TryMul<u64> for Decimal
try_mul_u64(self, rhs) ==
  LET p == checked_mul(self, rhs)
  IN  IF p.some THEN Ok(p.val) ELSE Err(MulOverflow)

\* try_mul dividing rhs by WAD before the multiplication
try_mul_rescale_first(self, rhs) ==
  LET p == checked_mul(self, NatDiv(rhs, WAD))
  IN  IF p.some THEN Ok(p.val) ELSE Err(MulOverflow)

\* try_mul without the division by WAD
try_mul_no_rescale(self, rhs) ==
  LET p == checked_mul(self, rhs)
  IN  IF p.some THEN Ok(p.val) ELSE Err(MulOverflow)

\* TryMul<Decimal> for Decimal
try_mul(self, rhs) ==
  LET p == checked_mul(self, rhs)
  IN  IF ~p.some THEN Err(MulOverflow)
      ELSE LET q == checked_div(p.val, WAD)
           IN  IF q.some THEN Ok(q.val) ELSE Err(DividedByZero)

\* TryMul<Rate> for Decimal
try_mul_rate(self, rhs) == try_mul(self, from_rate(rhs).val)

\* array_mut_ref![dst, 0, LEN] / array_ref![src, 0, LEN]: panics on a slice
\* shorter than LEN
HasArray(slice) == Len(slice) >= LEN

\* Pack::pack_into_slice: the outcome, and the destination afterwards.  The
\* array reference is taken first, then to_scaled_val().expect(..), then the
\* LEN bytes are assigned
pack_into_slice(self, dst) ==
  IF ~HasArray(dst) THEN [out |-> Panic, dst |-> dst]
  ELSE LET v == to_scaled_val(self)
       IN  IF v.kind # "Ok" THEN [out |-> Panic, dst |-> dst]
           ELSE [out |-> Ok(<<>>),
                 dst |-> [i \in 1..Len(dst) |->
                            IF i <= LEN THEN to_le_bytes(v.val)[i] ELSE dst[i]]]

\* Pack::unpack_from_slice
unpack_from_slice(src) ==
  IF ~HasArray(src) THEN Panic
  ELSE from_scaled_val(from_le_bytes(SubSeq(src, 1, LEN)))

\* ------------------------------------------------------------------------
\* Inputs
\* ------------------------------------------------------------------------

\* small integers 0 .. MaxSmall
MaxSmall == 3

\* how far below and above a boundary value the inputs go
MaxOff == 1

Small == {NatOfInt(k) : k \in 0..MaxSmall}

\* the values v - MaxOff .. v
Below(v) == {NatSub(v, NatOfInt(k)) : k \in 0..MaxOff}

\* the values v - MaxOff .. v + MaxOff
Around(v) == Below(v) \cup {NatAdd(v, NatOfInt(k)) : k \in 1..MaxOff}

\* the largest raw value whose product with WAD fits a U192
MaxTimesWad == NatDiv(U192_MAX, WAD)

\* the largest u64 whose product with BIPS_SCALER fits a u64
MaxBips == NatDiv(U64_MAX, BIPS_SCALER)

\* the largest u64 b with (u64::MAX * WAD) * (b * WAD) fitting a U192
MaxTimesU64Max == NatDiv(U192_MAX, NatMul(NatMul(U64_MAX, WAD), WAD))

\* the smallest raw value that rounds (half up) beyond u64::MAX
RoundsPastU64 == NatSub(NatMul(NatAdd(U64_MAX, <<1>>), WAD), HALF_WAD)

U8Inputs == Small \cup {<<50>>} \cup Below(<<Base - 1>>)

U64Inputs ==
  Small \cup Below(U64_MAX) \cup Around(MaxBips) \cup Around(MaxTimesU64Max)
        \cup {NatDiv(WAD, BIPS_SCALER)}

U128Inputs ==
  Small \cup {HALF_WAD, WAD} \cup Below(U128_MAX)

\* any U192 is a Decimal: the field of the tuple struct is public
RawInputs ==
  Around(NatAdd(WAD, HALF_WAD)) \cup Around(NatAdd(U128_MAX, <<1>>))
    \cup Around(RoundsPastU64) \cup Around(MaxTimesWad)
    \cup Around(NatSub(U192_MAX, HALF_WAD)) \cup Below(U192_MAX)

\* right-hand sides
DecimalArgs ==
  {zero, <<1>>, one, NatMul(<<2>>, WAD), NatMul(U64_MAX, WAD)}
    \cup {NatMul(b, WAD) : b \in Around(MaxTimesU64Max)}
    \cup Below(U192_MAX)

U64Args == Small \cup Below(U64_MAX)

RateArgs == {zero, <<1>>, HALF_WAD, WAD} \cup Below(U128_MAX)

\* slices: LEN bytes, more than LEN bytes, fewer
Slices ==
  {Repeat(0, LEN), Repeat(Base - 1, LEN), <<1>> \o Repeat(0, LEN - 1),
   Repeat(0, LEN - 1) \o <<1>>, to_le_bytes(WAD),
   to_le_bytes(WAD) \o <<7>>, Repeat(7, LEN - 1)}

\* ------------------------------------------------------------------------
\* The caller: builds a Decimal, combines it with a right-hand side, converts
\* it to an integer or packs it, and unpacks what it packed
\* ------------------------------------------------------------------------

VARIABLES
  pc,    \* "start", "built", "combined", "packed", "done"
  acc,   \* the Decimal the caller holds (its raw value)
  call,  \* the last call: [op, self, arg]
  res,   \* what the last call yielded
  dst    \* the slice last packed into

vars == <<pc, acc, call, res, dst>>

Call(op, self, arg) == [op |-> op, self |-> self, arg |-> arg]

Init ==
  /\ pc = "start"
  /\ acc = zero
  /\ call = Call("none", <<>>, <<>>)
  /\ res = Ok(<<>>)
  /\ dst = <<>>

\* a constructor called with arg yielded out
Build(op, arg, out) ==
  /\ call' = Call(op, <<>>, arg)
  /\ res' = out
  /\ acc' = IF out.kind = "Ok" THEN out.val ELSE acc
  /\ pc' = IF out.kind = "Ok" THEN "built" ELSE "done"
  /\ UNCHANGED dst

Zero == pc = "start" /\ Build("zero", <<>>, Ok(zero))

One == pc = "start" /\ Build("one", <<>>, Ok(one))

FromPercent ==
  /\ pc = "start"
  /\ \E p \in U8Inputs : Build("from_percent", p, from_percent(p))

FromBips ==
  /\ pc = "start"
  /\ \E b \in U64Inputs, overflow_checks \in BOOLEAN :
       Build("from_bips", b, from_bips(b, overflow_checks))

FromScaledVal ==
  /\ pc = "start"
  /\ \E v \in U128Inputs : Build("from_scaled_val", v, from_scaled_val(v))

FromU64 ==
  /\ pc = "start"
  /\ \E n \in U64Inputs : Build("from_u64", n, from_u64(n))

FromU128 ==
  /\ pc = "start"
  /\ \E n \in U128Inputs : Build("from_u128", n, from_u128(n))

FromRate ==
  /\ pc = "start"
  /\ \E r \in RateArgs : Build("from_rate", r, from_rate(r))

\* Decimal(raw)
Raw ==
  /\ pc = "start"
  /\ \E v \in RawInputs : Build("Decimal", v, Ok(v))

Unpack ==
  /\ pc = "start"
  /\ \E src \in Slices : Build("unpack_from_slice", src, unpack_from_slice(src))

\* acc = acc.op(arg)?
Combine(op, arg, out) ==
  /\ call' = Call(op, acc, arg)
  /\ res' = out
  /\ acc' = IF out.kind = "Ok" THEN out.val ELSE acc
  /\ pc' = IF out.kind = "Ok" THEN "combined" ELSE "done"
  /\ UNCHANGED dst

TryAdd ==
  /\ pc = "built"
  /\ \E rhs \in DecimalArgs : Combine("try_add", rhs, try_add(acc, rhs))

TrySub ==
  /\ pc = "built"
  /\ \E rhs \in DecimalArgs : Combine("try_sub", rhs, try_sub(acc, rhs))

TryMul ==
  /\ pc = "built"
  /\ \E rhs \in DecimalArgs : Combine("try_mul", rhs, try_mul(acc, rhs))

TryDiv ==
  /\ pc = "built"
  /\ \E rhs \in DecimalArgs : Combine("try_div", rhs, try_div(acc, rhs))

TryMulU64 ==
  /\ pc = "built"
  /\ \E rhs \in U64Args : Combine("try_mul_u64", rhs, try_mul_u64(acc, rhs))

TryDivU64 ==
  /\ pc = "built"
  /\ \E rhs \in U64Args : Combine("try_div_u64", rhs, try_div_u64(acc, rhs))

TryMulRate ==
  /\ pc = "built"
  /\ \E rhs \in RateArgs : Combine("try_mul_rate", rhs, try_mul_rate(acc, rhs))

TryDivRate ==
  /\ pc = "built"
  /\ \E rhs \in RateArgs : Combine("try_div_rate", rhs, try_div_rate(acc, rhs))

\* acc.op() read out
Convert(op, out) ==
  /\ call' = Call(op, acc, <<>>)
  /\ res' = out
  /\ pc' = "done"
  /\ UNCHANGED <<acc, dst>>

TryRoundU64 ==
  /\ pc \in {"built", "combined"}
  /\ Convert("try_round_u64", try_round_u64(acc))

TryCeilU64 ==
  /\ pc \in {"built", "combined"}
  /\ Convert("try_ceil_u64", try_ceil_u64(acc))

TryFloorU64 ==
  /\ pc \in {"built", "combined"}
  /\ Convert("try_floor_u64", try_floor_u64(acc))

ToScaledVal ==
  /\ pc \in {"built", "combined"}
  /\ Convert("to_scaled_val", to_scaled_val(acc))

\* acc.pack_into_slice(&mut buf)
PackIntoSlice ==
  /\ pc \in {"built", "combined"}
  /\ \E buf \in Slices :
       LET r == pack_into_slice(acc, buf)
       IN  /\ call' = Call("pack_into_slice", acc, buf)
           /\ res' = r.out
           /\ dst' = r.dst
           /\ pc' = IF r.out.kind = "Ok" THEN "packed" ELSE "done"
           /\ UNCHANGED acc

\* Decimal::unpack_from_slice(&dst) of the slice just packed; the caller still
\* holds the Decimal it packed
Restore ==
  /\ pc = "packed"
  /\ call' = Call("unpack_from_slice", <<>>, dst)
  /\ res' = unpack_from_slice(dst)
  /\ pc' = "done"
  /\ UNCHANGED <<acc, dst>>

Next ==
  \/ Zero \/ One \/ FromPercent \/ FromBips \/ FromScaledVal
  \/ FromU64 \/ FromU128 \/ FromRate \/ Raw \/ Unpack
  \/ TryAdd \/ TrySub \/ TryMul \/ TryDiv
  \/ TryMulU64 \/ TryDivU64 \/ TryMulRate \/ TryDivRate
  \/ TryRoundU64 \/ TryCeilU64 \/ TryFloorU64 \/ ToScaledVal
  \/ PackIntoSlice \/ Restore

Spec == Init /\ [][Next]_vars

\* ------------------------------------------------------------------------
\* Properties
\* ------------------------------------------------------------------------

RECURSIVE Horner(_, _, _)
\* v * Base^i + the number whose little-endian bytes are bytes[1..i]
Horner(bytes, i, v) ==
  IF i = 0 THEN v
  ELSE LET w == NatAdd(NatMul(<<0, 1>>, v), NatOfInt(bytes[i]))
       IN  IF w = <<>> THEN Horner(bytes, i - 1, <<>>)
           ELSE Horner(bytes, i - 1, w)

\* the number whose little-endian bytes are bytes: byte j (from 0) weighs
\* Base^j
ValueOfBytes(bytes) == Horner(bytes, Len(bytes), <<>>)

\* v = floor(num / den), stated by multiplication: v * den <= num < (v + 1) * den
IsFloorOf(v, num, den) ==
  /\ NatLeq(NatMul(v, den), num)
  /\ NatLess(num, NatMul(NatAdd(v, <<1>>), den))

\* raw is Decimal::from(n) for a u64 n
IsFromU64(raw) == NatMod(raw, WAD) = <<>> /\ NatLeq(NatDiv(raw, WAD), U64_MAX)

\* C1: lhs.try_sub(rhs) fails with SubUnderflow (ordinal 1) when rhs.raw >
\* lhs.raw, and returns Ok(lhs.raw - rhs.raw) when rhs.raw <= lhs.raw.
C1_SubUnderflow ==
  call.op = "try_sub" =>
    IF NatLess(call.self, call.arg)
    THEN res.kind = "Err" /\ res.err = [custom |-> 1]
    ELSE res.kind = "Ok" /\ NatAdd(res.val, call.arg) = call.self

\* C2 as stated: for every lhs, dividing by a zero Decimal, a zero u64 or a
\* zero Rate fails with DividedByZero.
C2_ZeroDivisorAlwaysDividedByZero ==
  (call.op \in {"try_div", "try_div_u64", "try_div_rate"} /\ call.arg = zero)
    => res = Err(DividedByZero)

\* C2 amended: dividing by a zero u64 always fails with DividedByZero;
\* dividing by a zero Decimal or a zero Rate fails with DividedByZero when
\* lhs.raw * WAD fits 192 bits, and with MulOverflow when it does not.
C2_ZeroDivisor ==
  /\ (call.op = "try_div_u64" /\ call.arg = zero) => res = Err(DividedByZero)
  /\ (call.op \in {"try_div", "try_div_rate"} /\ call.arg = zero) =>
       res = IF NatLeq(call.self, MaxTimesWad)
             THEN Err(DividedByZero) ELSE Err(MulOverflow)

\* the largest lhs whose division by the zero Decimal reports DividedByZero
C2_Witness ==
  /\ call.op = "try_div" /\ call.arg = zero
  /\ call.self = MaxTimesWad
  /\ res = Err(DividedByZero)

\* the largest product a * b of integers with (a * WAD) * (b * WAD) <= 2^192 - 1
MaxIntegerProduct == NatDiv(U192_MAX, NatMul(WAD, WAD))

\* C3 as stated: for all u64 a, b, Decimal::from(a).try_mul(Decimal::from(b))
\* returns Ok with the Decimal of value a * b.
C3_U64ProductsFit ==
  (call.op = "try_mul" /\ IsFromU64(call.self) /\ IsFromU64(call.arg)) =>
    res = Ok(NatMul(NatMul(NatDiv(call.self, WAD), NatDiv(call.arg, WAD)), WAD))

\* C3 amended: for all u64 a, b, Decimal::from(a).try_mul(Decimal::from(b))
\* returns Ok with the Decimal of value a * b exactly when
\* a * b * WAD^2 <= 2^192 - 1, and fails with MulOverflow otherwise; for
\* a = b = u64::MAX it fails.
C3_U64Products ==
  (call.op = "try_mul" /\ IsFromU64(call.self) /\ IsFromU64(call.arg)) =>
    LET ab == NatMul(NatDiv(call.self, WAD), NatDiv(call.arg, WAD))
    IN  res = IF NatLeq(ab, MaxIntegerProduct)
              THEN Ok(NatMul(ab, WAD)) ELSE Err(MulOverflow)

\* Decimal::from(u64::MAX).try_mul(Decimal::from(u64::MAX)) fails
C3_Witness ==
  /\ call.op = "try_mul"
  /\ call.self = NatMul(U64_MAX, WAD) /\ call.arg = NatMul(U64_MAX, WAD)
  /\ res = Err(MulOverflow)

\* C4: for a Decimal whose raw value fits 128 bits, pack_into_slice writes
\* exactly the first 16 bytes of the destination, the little-endian bytes of
\* the raw value (byte i weighs 256^i, the most significant is at index 15),
\* and unpack_from_slice of what was packed returns the Decimal; packing the
\* Decimal unpacked from 16 bytes reproduces the bytes.
C4_CodecRoundTrip ==
  /\ (call.op = "pack_into_slice" /\ HasArray(call.arg)
        /\ NatLeq(call.self, U128_MAX)) =>
       /\ res.kind = "Ok"
       /\ Len(dst) = Len(call.arg)
       /\ ValueOfBytes(SubSeq(dst, 1, LEN)) = call.self
       /\ \A i \in (LEN + 1)..Len(dst) : dst[i] = call.arg[i]
       /\ \A src \in Slices :
            (HasArray(src) /\ unpack_from_slice(src) = Ok(call.self)) =>
              SubSeq(dst, 1, LEN) = SubSeq(src, 1, LEN)
  /\ (call.op = "unpack_from_slice" /\ pc = "done" /\ call.arg = dst
        /\ res.kind # "Panic") =>
       res = Ok(acc)

\* 2^120, unpacked from the bytes whose only nonzero byte is index 15, was
\* packed into a longer slice and unpacked from it again
C4_Witness ==
  /\ pc = "done" /\ call.op = "unpack_from_slice"
  /\ dst = Repeat(0, LEN - 1) \o <<1, 7>>
  /\ acc = NatPow(<<2>>, 120)
  /\ res = Ok(acc)

\* C5: for every u64 n, Decimal::from(n) has raw = n * WAD, and
\* try_floor_u64, try_ceil_u64 and try_round_u64 of it each return Ok(n).
C5_IntegersRoundTrip ==
  /\ call.op = "from_u64" =>
       /\ res.kind = "Ok"
       /\ NatDiv(res.val, WAD) = call.arg /\ NatMod(res.val, WAD) = <<>>
  /\ (call.op \in {"try_floor_u64", "try_ceil_u64", "try_round_u64"}
        /\ IsFromU64(call.self)) =>
       res.kind = "Ok" /\ NatMul(res.val, WAD) = call.self

\* Decimal::from(u64::MAX) was taken to its ceiling
C5_Witness ==
  /\ call.op = "try_ceil_u64"
  /\ call.self = NatMul(U64_MAX, WAD)
  /\ res = Ok(U64_MAX)

\* C6: for every u64 b, from_bips(b) returns the Decimal with
\* raw = b * BIPS_SCALER, without wrap-around, truncation or fault.
C6_FromBipsExact ==
  call.op = "from_bips" => res = Ok(NatMul(call.arg, BIPS_SCALER))

\* 3/2 as the code computes it: Decimal::from(3).try_div(Decimal::from(2))
ThreeHalves == try_div(from_u64(<<3>>).val, from_u64(<<2>>).val).val

\* C7: try_round_u64 returns Err(AddOverflow) exactly when raw + HALF_WAD
\* exceeds 2^192 - 1, otherwise Err(UnableToRoundU64) exactly when
\* floor((raw + HALF_WAD) / WAD) exceeds 2^64 - 1, otherwise
\* Ok(floor((raw + HALF_WAD) / WAD)), and never DividedByZero; 3/2 rounds to
\* 2, floors to 1 and has ceiling 2.
C7_RoundHalfUp ==
  /\ call.op = "try_round_u64" =>
       IF NatLess(NatSub(U192_MAX, HALF_WAD), call.self)
       THEN res = Err(AddOverflow)
       ELSE IF NatLeq(NatMul(NatAdd(U64_MAX, <<1>>), WAD),
                      NatAdd(call.self, HALF_WAD))
       THEN res = Err(UnableToRoundU64)
       ELSE /\ res.kind = "Ok"
            /\ IsFloorOf(res.val, NatAdd(call.self, HALF_WAD), WAD)
  /\ (call.op = "try_round_u64" /\ call.self = ThreeHalves) => res = Ok(<<2>>)
  /\ (call.op = "try_floor_u64" /\ call.self = ThreeHalves) => res = Ok(<<1>>)
  /\ (call.op = "try_ceil_u64" /\ call.self = ThreeHalves) => res = Ok(<<2>>)

\* the quotient of Decimal::from(3) by Decimal::from(2), 1.5, was rounded to 2
C7_Witness ==
  /\ call.op = "try_round_u64"
  /\ call.self = ThreeHalves /\ ThreeHalves = NatAdd(WAD, HALF_WAD)
  /\ res = Ok(<<2>>)

\* C8: to_scaled_val returns Ok(raw) exactly when raw <= 2^128 - 1 and
\* Err(UnableToRoundU128) otherwise; pack_into_slice (into a slice that holds
\* the 16 bytes) panics exactly when to_scaled_val fails, and has then written
\* nothing to the destination.
C8_ScaledValOrFault ==
  /\ call.op = "to_scaled_val" =>
       res = IF NatLeq(call.self, U128_MAX)
             THEN Ok(call.self) ELSE Err(UnableToRoundU128)
  /\ (call.op = "pack_into_slice" /\ HasArray(call.arg)) =>
       /\ (res.kind = "Panic") <=> NatLess(U128_MAX, call.self)
       /\ res.kind = "Panic" => dst = call.arg
       /\ res.kind # "Err"

\* packing the raw value 2^128 panicked and left the destination as it was
C8_Witness ==
  /\ call.op = "pack_into_slice" /\ HasArray(call.arg)
  /\ call.self = NatAdd(U128_MAX, <<1>>)
  /\ res = Panic /\ dst = call.arg

\* C9: a.try_mul(b) on Decimals returns Ok with raw = floor(a.raw * b.raw /
\* WAD) exactly when a.raw * b.raw <= 2^192 - 1, and Err(MulOverflow) exactly
\* when the raw product exceeds it (even if the quotient would fit), never
\* DividedByZero; one * one = one, and x * one = x when x.raw * WAD fits.
C9_MulRescalesOnce ==
  call.op = "try_mul" =>
    LET p == NatMul(call.self, call.arg)
    IN  /\ IF NatLeq(p, U192_MAX)
           THEN res.kind = "Ok" /\ IsFloorOf(res.val, p, WAD)
           ELSE res = Err(MulOverflow)
        /\ (call.arg = one /\ NatLeq(call.self, MaxTimesWad)) => res = Ok(call.self)

\* the largest x with x * one = x, multiplied by one
C9_Witness ==
  /\ call.op = "try_mul"
  /\ call.self = MaxTimesWad /\ call.arg = one
  /\ res = Ok(MaxTimesWad)

\* C10: a.try_div(b) on Decimals is Err(MulOverflow) when a.raw * WAD exceeds
\* 2^192 - 1, whatever b is; otherwise Err(DividedByZero) when b.raw = 0;
\* otherwise Ok with raw = floor(a.raw * WAD / b.raw).  Dividing by a Rate
\* gives what dividing by the Decimal promoted from it gives, and dividing by
\* a u64 n gives raw = floor(a.raw / n), without rescaling.
C10_DivPrescales ==
  /\ call.op \in {"try_div", "try_div_rate"} =>
       IF NatLess(MaxTimesWad, call.self) THEN res = Err(MulOverflow)
       ELSE IF call.arg = zero THEN res = Err(DividedByZero)
       ELSE /\ res.kind = "Ok"
            /\ IsFloorOf(res.val, NatMul(call.self, WAD), call.arg)
  /\ (call.op = "try_div_u64" /\ call.arg # zero) =>
       res.kind = "Ok" /\ IsFloorOf(res.val, call.self, call.arg)

\* a division whose multiplication by WAD overflows, by zero: MulOverflow
C10_Witness ==
  /\ call.op = "try_div"
  /\ call.self = NatAdd(MaxTimesWad, <<1>>) /\ call.arg = zero
  /\ res = Err(MulOverflow)

====
